---- MODULE Spec2Model ----
(***************************************************************************)
(* ChoiceListEntry (app/client/widgets/ChoiceListEntry.ts): the editor of  *)
(* a Choice column's allowed values and their colours.  The model covers   *)
(* the edit/view state machine, the holder of the TokenField, the save     *)
(* computation with its callback, and the view-mode row rendering.         *)
(***************************************************************************)
EXTENDS Integers, Sequences, FiniteSets, TLC

VARIABLES
    isEditing,     \* this._isEditing
    tokenField,    \* the TokenField held by this._tokenFieldHolder, or NoSession
    live,          \* ids of the TokenField objects created and not yet disposed
    values,        \* this._values (observable owned by the host)
    options,       \* this._choiceOptionsByName (observable owned by the host)
    maxRows,       \* argument of buildDom
    dom,           \* what dom.domComputed(this._isEditing, ...) currently shows
    onSaveCall,    \* arguments of the this._onSave call made by the last event, or NoCall
    sessionCalls,  \* number of this._onSave calls since the last entry into edit mode
    event,         \* the last event handled
    clipboard,     \* the data of the clipboard: its application/json and text/plain fields
    clipOrigin,    \* what the data of the clipboard was made from
    pasted,        \* what the last clipboardToChoices returned, or NotPasted
    timers,        \* the callbacks given to setTimeout that have not run yet, oldest first
    touched        \* the text input the last run of such a callback focused, or NoFocus

editorVars == <<isEditing, tokenField, live, values, options, maxRows, dom,
                onSaveCall, sessionCalls>>

clipVars == <<clipboard, clipOrigin, pasted>>

focusVars == <<timers, touched>>

vars == <<isEditing, tokenField, live, values, options, maxRows, dom,
          onSaveCall, sessionCalls, event, clipboard, clipOrigin, pasted,
          timers, touched>>

----------------------------------------------------------------------------
\* Bounds of the model

MaxValues == 2
MaxTokens == 2
MaxCalls == 2
MaxViewValues == 6
MaxRowsArg == 5
MaxClipTokens == 2
MaxClipText == 3
MaxTimers == 2

----------------------------------------------------------------------------
\* Data

DefaultMaxRows == 6

UNSET_COLOR == "#ffffff"

DEFAULT_TEXT_COLOR == "#000000"

Labels == {"A", "B"}

\* the fill colours the colour picker offers
PickerFills == {"#ff0000"}

\* IChoiceOptions values held by the host
ColorOptions == [fillColor : PickerFills, textColor : {DEFAULT_TEXT_COLOR}]

\* an undefined `options`
NoOptions == [fillColor |-> "undefined", textColor |-> "undefined"]

ChoiceItem(label, opts) == [label |-> label, options |-> opts]

\* Sequences over S of length at most n
SeqUpTo(S, n) == UNION {[1..k -> S] : k \in 0..n}

\* ChoiceOptionsByName: a Map, kept as its entries in insertion order
OptionMaps ==
    {m \in SeqUpTo([key : Labels, value : ColorOptions], Cardinality(Labels)) :
        \A i, j \in 1..Len(m) : i # j => m[i].key # m[j].key}

MapHas(m, k) == \E i \in 1..Len(m) : m[i].key = k

MapGet(m, k) ==
    IF MapHas(m, k) THEN m[CHOOSE i \in 1..Len(m) : m[i].key = k].value ELSE NoOptions

MapSet(m, k, v) ==
    IF MapHas(m, k)
    THEN [i \in 1..Len(m) |-> IF m[i].key = k THEN [key |-> k, value |-> v] ELSE m[i]]
    ELSE Append(m, [key |-> k, value |-> v])

MapEntries(m) == {m[i] : i \in 1..Len(m)}

\* the two arrays compared without regard to order
isEqualListUnordered(a, b) ==
    Len(a) = Len(b) /\ {a[i] : i \in 1..Len(a)} = {b[i] : i \in 1..Len(b)}

\* lodash isEqual on two arrays of strings
isEqualList(a, b) == Len(a) = Len(b) /\ \A i \in 1..Len(a) : a[i] = b[i]

\* isEqual with the entries compared in insertion order
isEqualMapOrdered(a, b) == a = b

\* lodash isEqual on two Maps: same size, entries matched without regard to order
isEqualMap(a, b) == Len(a) = Len(b) /\ MapEntries(a) = MapEntries(b)

\* no token is dropped
uniqByKeepAll(tokens) == tokens

\* of the tokens of one label the last is kept, at the place of the first
uniqByKeepLast(tokens) ==
    LET F[i \in 0..Len(tokens)] ==
            IF i = 0 THEN <<>>
            ELSE IF \E j \in 1..Len(F[i - 1]) : F[i - 1][j].label = tokens[i].label
                 THEN [j \in 1..Len(F[i - 1]) |->
                          IF F[i - 1][j].label = tokens[i].label
                          THEN tokens[i] ELSE F[i - 1][j]]
                 ELSE Append(F[i - 1], tokens[i])
    IN F[Len(tokens)]

\* lodash uniqBy(tokens, t => t.label)
uniqBy(tokens) ==
    LET F[i \in 0..Len(tokens)] ==
            IF i = 0 THEN <<>>
            ELSE IF \E j \in 1..Len(F[i - 1]) : F[i - 1][j].label = tokens[i].label
                 THEN F[i - 1]
                 ELSE Append(F[i - 1], tokens[i])
    IN F[Len(tokens)]

getTextColor(choiceOptions) ==
    IF choiceOptions = NoOptions THEN DEFAULT_TEXT_COLOR ELSE choiceOptions.textColor

getFillColor(choiceOptions) ==
    IF choiceOptions = NoOptions THEN UNSET_COLOR ELSE choiceOptions.fillColor

----------------------------------------------------------------------------
\* JSON: values, and texts as sequences of lexemes

JStr(str) == [kind |-> "str", s |-> str, items |-> <<>>]

JNum(digits) == [kind |-> "num", s |-> digits, items |-> <<>>]

JNull == [kind |-> "null", s |-> "null", items |-> <<>>]

JArr(elements) == [kind |-> "arr", s |-> "", items |-> elements]

\* an object: its properties [key, val] in insertion order, keys distinct
JObj(props) == [kind |-> "obj", s |-> "", items |-> props]

Prop(k, v) == [key |-> k, val |-> v]

ObjHas(v, k) == \E i \in 1..Len(v.items) : v.items[i].key = k

ObjGet(v, k) == v.items[CHOOSE i \in 1..Len(v.items) : v.items[i].key = k].val

\* obj[k] = val
ObjSet(props, k, val) ==
    IF \E i \in 1..Len(props) : props[i].key = k
    THEN [i \in 1..Len(props) |-> IF props[i].key = k THEN Prop(k, val) ELSE props[i]]
    ELSE Append(props, Prop(k, val))

\* a string literal of a JSON text
Quoted(str) == [q |-> TRUE, s |-> str]

\* a punctuation mark or a bare word of a JSON text
Bare(word) == [q |-> FALSE, s |-> word]

RECURSIVE Stringify(_)
RECURSIVE StringifyItems(_, _)
RECURSIVE StringifyProps(_, _)

\* JSON.stringify
Stringify(v) ==
    CASE v.kind = "str" -> <<Quoted(v.s)>>
      [] v.kind = "arr" -> <<Bare("[")>> \o StringifyItems(v.items, 1) \o <<Bare("]")>>
      [] v.kind = "obj" -> <<Bare("{")>> \o StringifyProps(v.items, 1) \o <<Bare("}")>>
      [] OTHER -> <<Bare(v.s)>>

StringifyItems(elements, i) ==
    IF i > Len(elements) THEN <<>>
    ELSE Stringify(elements[i])
            \o (IF i < Len(elements) THEN <<Bare(",")>> ELSE <<>>)
            \o StringifyItems(elements, i + 1)

StringifyProps(props, i) ==
    IF i > Len(props) THEN <<>>
    ELSE <<Quoted(props[i].key), Bare(":")>> \o Stringify(props[i].val)
            \o (IF i < Len(props) THEN <<Bare(",")>> ELSE <<>>)
            \o StringifyProps(props, i + 1)

\* the result of parsing from a place of a text: the value and the place after it
ParseFail == [ok |-> FALSE, val |-> JNull, next |-> 0]

Parsed(v, n) == [ok |-> TRUE, val |-> v, next |-> n]

IsBare(text, i, word) == i <= Len(text) /\ text[i] = Bare(word)

Digits == {"1"}

RECURSIVE ParseValue(_, _)
RECURSIVE ParseItems(_, _, _)
RECURSIVE ParseProps(_, _, _)

\* the JSON value that starts at place i of the text
ParseValue(text, i) ==
    IF i > Len(text) THEN ParseFail
    ELSE IF text[i].q THEN Parsed(JStr(text[i].s), i + 1)
    ELSE IF text[i].s = "null" THEN Parsed(JNull, i + 1)
    ELSE IF text[i].s \in Digits THEN Parsed(JNum(text[i].s), i + 1)
    ELSE IF text[i].s = "["
         THEN IF IsBare(text, i + 1, "]") THEN Parsed(JArr(<<>>), i + 2)
              ELSE ParseItems(text, i + 1, <<>>)
    ELSE IF text[i].s = "{"
         THEN IF IsBare(text, i + 1, "}") THEN Parsed(JObj(<<>>), i + 2)
              ELSE ParseProps(text, i + 1, <<>>)
    ELSE ParseFail

\* the elements of an array from place i on, after the elements acc
ParseItems(text, i, acc) ==
    LET el == ParseValue(text, i) IN
    IF ~el.ok THEN ParseFail
    ELSE IF IsBare(text, el.next, ",") THEN ParseItems(text, el.next + 1, Append(acc, el.val))
    ELSE IF IsBare(text, el.next, "]") THEN Parsed(JArr(Append(acc, el.val)), el.next + 1)
    ELSE ParseFail

\* the properties of an object from place i on, after the properties acc
ParseProps(text, i, acc) ==
    IF ~(i + 1 <= Len(text) /\ text[i].q /\ text[i + 1] = Bare(":")) THEN ParseFail
    ELSE LET el == ParseValue(text, i + 2) IN
         IF ~el.ok THEN ParseFail
         ELSE IF IsBare(text, el.next, ",")
              THEN ParseProps(text, el.next + 1, ObjSet(acc, text[i].s, el.val))
         ELSE IF IsBare(text, el.next, "}")
              THEN Parsed(JObj(ObjSet(acc, text[i].s, el.val)), el.next + 1)
         ELSE ParseFail

\* JSON.parse: ok is FALSE where it throws a SyntaxError
JSONparse(text) ==
    LET r == ParseValue(text, 1) IN
    IF r.ok /\ r.next = Len(text) + 1 THEN r ELSE ParseFail

----------------------------------------------------------------------------
\* The clipboard

\* ChoiceOptionsType: iface([], {textColor: "string", fillColor: "string"})
ChoiceOptionsChecker(v) ==
    /\ v.kind = "obj"
    /\ ObjHas(v, "textColor") /\ ObjGet(v, "textColor").kind = "str"
    /\ ObjHas(v, "fillColor") /\ ObjGet(v, "fillColor").kind = "str"

\* ChoiceItemChecker.test: iface([], {label: "string", options: opt("ChoiceOptionsType")})
ChoiceItemChecker(v) ==
    /\ v.kind = "obj"
    /\ ObjHas(v, "label") /\ ObjGet(v, "label").kind = "str"
    /\ ObjHas(v, "options") => ChoiceOptionsChecker(ObjGet(v, "options"))

\* a parsed object that passed the checker, read as a ChoiceItem
AsChoiceItem(v) ==
    ChoiceItem(ObjGet(v, "label").s,
               IF ObjHas(v, "options")
               THEN [fillColor |-> ObjGet(ObjGet(v, "options"), "fillColor").s,
                     textColor |-> ObjGet(ObjGet(v, "options"), "textColor").s]
               ELSE NoOptions)

ToJsonNullOptions(token) ==
    JObj(<<Prop("label", JStr(token.label)),
           Prop("options",
                IF token.options # NoOptions
                THEN JObj(<<Prop("fillColor", JStr(token.options.fillColor)),
                            Prop("textColor", JStr(token.options.textColor))>>)
                ELSE JNull)>>)

\* what JSON.stringify sees of a ChoiceItem: an undefined `options` is left out
ToJson(token) ==
    JObj(<<Prop("label", JStr(token.label))>>
         \o (IF token.options # NoOptions
             THEN <<Prop("options",
                         JObj(<<Prop("fillColor", JStr(token.options.fillColor)),
                                Prop("textColor", JStr(token.options.textColor))>>))>>
             ELSE <<>>))

\* a plain text is the sequence of its pieces: a line break "\n", or the characters
\* of one line (a label) taken together; the empty string is the empty sequence
RECURSIVE JoinLines(_, _)

\* labels.join('\n'), from label i on
JoinLines(labels, i) ==
    IF i > Len(labels) THEN <<>>
    ELSE (IF labels[i] # "" THEN <<labels[i]>> ELSE <<>>)
            \o (IF i < Len(labels) THEN <<"\n">> ELSE <<>>)
            \o JoinLines(labels, i + 1)

RECURSIVE SplitLines(_, _, _)

\* text.split('\n'): the lines from place i on, `line` being what was read of the line
SplitLines(text, i, line) ==
    IF i > Len(text) THEN <<line>>
    ELSE IF text[i] = "\n" THEN <<line>> \o SplitLines(text, i + 1, "")
    ELSE SplitLines(text, i + 1, text[i])

NoData == <<>>

\* a clipboard without data: getData gives the empty string for both fields
NoClipboard == [json |-> NoData, plain |-> NoData]

\* what the data of the clipboard was made from: nothing ("none"), a JSON value
\* written out in full ("value") or cut short ("broken"), or a copy of tokens
NoOrigin == [kind |-> "none", val |-> JNull, tokens |-> <<>>]

\* tokensToClipboard(tokens, clipboard)
tokensToClipboard(tokens) ==
    [json  |-> Stringify(JArr([i \in 1..Len(tokens) |-> ToJson(tokens[i])])),
     plain |-> JoinLines([i \in 1..Len(tokens) |-> tokens[i].label], 1)]

isJSONNoCatch(string) == TRUE

\* try { JSON.parse(string); return true; } catch { return false; }
isJSON(string) == JSONparse(string).ok

Returned(tokens) == [done |-> TRUE, threw |-> FALSE, tokens |-> tokens]

Threw == [done |-> TRUE, threw |-> TRUE, tokens |-> <<>>]

NotPasted == [done |-> FALSE, threw |-> FALSE, tokens |-> <<>>]

\* the text/plain part of clipboardToChoices
textToChoices(maybeText) ==
    IF maybeText # NoData
    THEN LET lines == SplitLines(maybeText, 1, "")
         IN Returned([i \in 1..Len(lines) |-> ChoiceItem(lines[i], NoOptions)])
    ELSE Returned(<<>>)

clipboardToChoicesTextFirst(clip) ==
    IF clip.plain # NoData THEN textToChoices(clip.plain)
    ELSE LET parsed == JSONparse(clip.json) IN
         IF /\ parsed.ok
            /\ parsed.val.kind = "arr"
            /\ \A i \in 1..Len(parsed.val.items) : ChoiceItemChecker(parsed.val.items[i])
         THEN Returned([i \in 1..Len(parsed.val.items) |-> AsChoiceItem(parsed.val.items[i])])
         ELSE Returned(<<>>)

\* clipboardToChoices(clipboard)
clipboardToChoices(clip) ==
    LET maybeTokens == clip.json IN
    IF maybeTokens # NoData /\ isJSON(maybeTokens)
    THEN LET parsed == JSONparse(maybeTokens) IN
         IF ~parsed.ok THEN Threw
         ELSE IF /\ parsed.val.kind = "arr"
                 /\ \A i \in 1..Len(parsed.val.items) : ChoiceItemChecker(parsed.val.items[i])
              THEN Returned([i \in 1..Len(parsed.val.items) |->
                                AsChoiceItem(parsed.val.items[i])])
              ELSE textToChoices(clip.plain)
    ELSE textToChoices(clip.plain)

----------------------------------------------------------------------------
\* The holder and the TokenField

NoSession == [id |-> 0, tokens |-> <<>>, text |-> ""]

NoCall == [called |-> FALSE, values |-> <<>>, options |-> <<>>]

Call(vals, opts) == [called |-> TRUE, values |-> vals, options |-> opts]

\* no callback has run yet
NoFocus == [input |-> 0, ended |-> FALSE, done |-> FALSE]

\* this._focusOnOpen(tokenField.getTextInput()): setTimeout(() => focus(elem), 0), elem
\* being the text input of the TokenField with the given id
_focusOnOpen(queue, id) == Append(queue, [input |-> id, ended |-> FALSE])

\* the edit session is over: the text inputs the waiting callbacks hold are those of
\* a session that has ended
SessionEnded(queue) == [i \in 1..Len(queue) |-> [queue[i] EXCEPT !.ended = TRUE]]

\* focus(elem): elem.focus(), elem.setSelectionRange(...), elem.scrollTo(...)
focus(elem) == [input |-> elem.input, ended |-> elem.ended, done |-> TRUE]

initialValueWithoutOptions(vals, opts) ==
    [i \in 1..Len(vals) |-> ChoiceItem(vals[i], NoOptions)]

\* initialValue of the TokenField
initialValue(vals, opts) ==
    [i \in 1..Len(vals) |-> ChoiceItem(vals[i], MapGet(opts, vals[i]))]

\* a new object is none of the objects still alive
NewId(liveSet) == CHOOSE id \in 1..(Cardinality(liveSet) + 1) : id \notin liveSet

\* the object held before is forgotten but not disposed
HolderDisposeKeeps(held, liveSet) == liveSet

\* Holder.autoDispose: the object held before is disposed
HolderDispose(held, liveSet) == liveSet \ {held.id}

----------------------------------------------------------------------------
\* Rendering

EditDom == [mode |-> "edit", noChoices |-> FALSE, rows |-> <<>>,
            moreShown |-> FALSE, moreN |-> 0]

\* the slice one row too long
someValuesOffByOne(vals, mr) ==
    IF Len(vals) <= mr THEN vals ELSE SubSeq(vals, 1, mr)

someValues(vals, mr) ==
    IF Len(vals) <= mr THEN vals ELSE SubSeq(vals, 1, mr - 1)

ViewDom(vals, opts, mr) ==
    LET some == someValues(vals, mr) IN
    [mode      |-> "view",
     noChoices |-> Len(some) = 0,
     rows      |-> [i \in 1..Len(some) |->
                      [label |-> some[i], fill |-> getFillColor(MapGet(opts, some[i]))]],
     moreShown |-> Len(vals) > mr,
     moreN     |-> IF Len(vals) > mr THEN Len(vals) - (mr - 1) ELSE 0]

buildDom(editMode, vals, opts, mr) ==
    IF editMode THEN EditDom ELSE ViewDom(vals, opts, mr)

----------------------------------------------------------------------------
Init ==
    /\ isEditing = FALSE
    /\ tokenField = NoSession
    /\ live = {}
    /\ values \in SeqUpTo(Labels, MaxValues)
    /\ options \in OptionMaps
    /\ maxRows = DefaultMaxRows
    /\ dom = buildDom(FALSE, values, options, maxRows)
    /\ onSaveCall = NoCall
    /\ sessionCalls = 0
    /\ event = "construct"
    /\ clipboard = NoClipboard
    /\ clipOrigin = NoOrigin
    /\ pasted = NotPasted
    /\ timers = <<>>
    /\ touched = NoFocus

\* this._startEditing() and the edit branch of the domComputed callback
_startEditing ==
    /\ ~isEditing
    /\ Len(timers) < MaxTimers
    /\ isEditing' = TRUE
    /\ LET id == NewId(live) IN
        /\ tokenField' = [id |-> id, tokens |-> initialValue(values, options), text |-> ""]
        /\ live' = HolderDispose(tokenField, live) \cup {id}
        /\ timers' = _focusOnOpen(timers, id)
    /\ dom' = buildDom(TRUE, values, options, maxRows)
    /\ onSaveCall' = NoCall
    /\ sessionCalls' = 0
    /\ event' = "startEditing"
    /\ UNCHANGED clipVars
    /\ UNCHANGED touched
    /\ UNCHANGED <<values, options, maxRows>>

ClickDisplay == _startEditing

ClickEdit == _startEditing

\* a _cancel that also clears the holder and disposes the TokenField
_cancelReleases(held) ==
    /\ isEditing' = FALSE
    /\ dom' = buildDom(FALSE, values', options', maxRows')
    /\ tokenField' = NoSession
    /\ live' = {}
    /\ timers' = SessionEnded(timers)

\* this._cancel(): this._isEditing.set(false); on a change of the flag the domComputed
\* callback builds the view branch.  The holder is not touched: it keeps `held`, the
\* TokenField it holds when _cancel is called.
_cancel(held) ==
    /\ isEditing' = FALSE
    /\ dom' = buildDom(FALSE, values', options', maxRows')
    /\ tokenField' = held
    /\ live' = live
    /\ timers' = SessionEnded(timers)

\* what the host's callback does with the candidate before it returns
HostReactions == {"ignore", "setOptions", "setValues", "setBoth"}

\* this._onSave(newValues, newOptions); a set of this._values runs the listener of the
\* constructor, which calls this._cancel()
_onSave(newValues, newOptions, held) ==
    /\ sessionCalls < MaxCalls
    /\ onSaveCall' = Call(newValues, newOptions)
    /\ sessionCalls' = sessionCalls + 1
    /\ \E r \in HostReactions :
        /\ options' = IF r \in {"setOptions", "setBoth"} THEN newOptions ELSE options
        /\ values' = IF r \in {"setValues", "setBoth"} THEN newValues ELSE values
        /\ UNCHANGED maxRows
        /\ IF r \in {"setValues", "setBoth"}
           THEN _cancel(held)
           ELSE /\ tokenField' = held
                /\ UNCHANGED <<isEditing, dom, live, timers>>

\* every surviving token gets an entry, with the default colours when it has no options
NewOptionsForAll(newTokens) ==
    LET F[i \in 0..Len(newTokens)] ==
            IF i = 0 THEN <<>>
            ELSE MapSet(F[i - 1], newTokens[i].label,
                        [fillColor |-> getFillColor(newTokens[i].options),
                         textColor |-> getTextColor(newTokens[i].options)])
    IN F[Len(newTokens)]

\* the entries of the surviving tokens are set in the options held
NewOptionsOverHeld(newTokens) ==
    LET F[i \in 0..Len(newTokens)] ==
            IF i = 0 THEN options
            ELSE IF newTokens[i].options # NoOptions
                 THEN MapSet(F[i - 1], newTokens[i].label,
                             [fillColor |-> newTokens[i].options.fillColor,
                              textColor |-> newTokens[i].options.textColor])
                 ELSE F[i - 1]
    IN F[Len(newTokens)]

\* the options Map built from the surviving tokens
NewOptions(newTokens) ==
    LET F[i \in 0..Len(newTokens)] ==
            IF i = 0 THEN <<>>
            ELSE IF newTokens[i].options # NoOptions
                 THEN MapSet(F[i - 1], newTokens[i].label,
                             [fillColor |-> newTokens[i].options.fillColor,
                              textColor |-> newTokens[i].options.textColor])
                 ELSE F[i - 1]
    IN F[Len(newTokens)]

\* the typed text is put before the tokens
PushInputFront(tokens, tokenInputVal) ==
    IF tokenInputVal # "" THEN <<ChoiceItem(tokenInputVal, NoOptions)>> \o tokens ELSE tokens

\* tokens after `tokens.push(new ChoiceItem(tokenInputVal))`
PushInput(tokens, tokenInputVal) ==
    IF tokenInputVal # "" THEN Append(tokens, ChoiceItem(tokenInputVal, NoOptions)) ELSE tokens

NewTokens(tf) == uniqBy(PushInput(tf.tokens, tf.text))

NewValues(tf) == [i \in 1..Len(NewTokens(tf)) |-> NewTokens(tf)[i].label]

\* whether _save calls the host
Changed(vals, opts, newValues, newOptions) ==
    ~isEqualList(vals, newValues) \/ ~isEqualMap(opts, newOptions)

\* this._save()
_save ==
    IF tokenField = NoSession
    THEN UNCHANGED <<isEditing, tokenField, live, values, options, maxRows, dom,
                     onSaveCall, sessionCalls, timers>>
    ELSE LET newValues == NewValues(tokenField)
             newOptions == NewOptions(NewTokens(tokenField))
             \* tokens.push(...) changes the array of the TokenField in place
             pushed == [tokenField EXCEPT
                           !.tokens = PushInput(tokenField.tokens, tokenField.text)]
         IN IF Changed(values, options, newValues, newOptions)
            THEN _onSave(newValues, newOptions, pushed)
            ELSE /\ UNCHANGED <<values, options, maxRows, sessionCalls>>
                 /\ onSaveCall' = NoCall
                 /\ _cancel(pushed)

\* the session with the typed text pushed stays within the bound of the model
SessionFits == Len(PushInput(tokenField.tokens, tokenField.text)) <= MaxTokens

\* the Save button of the edit branch
ClickSave ==
    /\ isEditing
    /\ SessionFits
    /\ event' = "save"
    /\ UNCHANGED clipVars
    /\ UNCHANGED touched
    /\ _save

\* dom.onKeyDown({Enter$: ...}) of the edit branch
KeyEnter ==
    /\ isEditing
    /\ SessionFits
    /\ event' = "save"
    /\ UNCHANGED clipVars
    /\ UNCHANGED touched
    /\ _save

\* the Cancel button of the edit branch
ClickCancel ==
    /\ isEditing
    /\ event' = "cancel"
    /\ UNCHANGED clipVars
    /\ UNCHANGED touched
    /\ onSaveCall' = NoCall
    /\ UNCHANGED <<values, options, maxRows, sessionCalls>>
    /\ _cancel(tokenField)

\* Escape bound to the save path
KeyEscapeSaves ==
    /\ isEditing
    /\ SessionFits
    /\ event' = "cancel"
    /\ UNCHANGED clipVars
    /\ UNCHANGED touched
    /\ _save

\* dom.onKeyDown({Escape$: ...}) of the edit branch
KeyEscape ==
    /\ isEditing
    /\ event' = "cancel"
    /\ UNCHANGED clipVars
    /\ UNCHANGED touched
    /\ onSaveCall' = NoCall
    /\ UNCHANGED <<values, options, maxRows, sessionCalls>>
    /\ _cancel(tokenField)

\* this._values is set outside the editor: the listener of the constructor runs
ValuesChanged(v) ==
    /\ values' = v
    /\ event' = "valuesChanged"
    /\ UNCHANGED clipVars
    /\ UNCHANGED touched
    /\ onSaveCall' = NoCall
    /\ UNCHANGED <<options, maxRows, sessionCalls>>
    /\ _cancel(tokenField)

\* this._choiceOptionsByName is set outside the editor: no listener of the editor runs;
\* the view branch renders its rows again, the edit branch does not read it
OptionsChanged(o) ==
    /\ options' = o
    /\ event' = "optionsChanged"
    /\ UNCHANGED clipVars
    /\ UNCHANGED touched
    /\ onSaveCall' = NoCall
    /\ dom' = buildDom(isEditing, values, o, maxRows)
    /\ UNCHANGED <<isEditing, tokenField, live, values, maxRows, sessionCalls, timers>>

ExternalValues == \E v \in SeqUpTo(Labels, MaxValues) : ValuesChanged(v)

ExternalOptions == \E o \in OptionMaps : o # options /\ OptionsChanged(o)

----------------------------------------------------------------------------
\* The TokenField of the edit session

\* an edit of the session: nothing of the editor but the TokenField changes
SessionEdit(tokens, text) ==
    /\ isEditing
    /\ tokenField' = [tokenField EXCEPT !.tokens = tokens, !.text = text]
    /\ event' = "session"
    /\ UNCHANGED clipVars
    /\ UNCHANGED touched
    /\ onSaveCall' = NoCall
    /\ UNCHANGED <<isEditing, live, values, options, maxRows, dom, sessionCalls, timers>>

\* createToken: label => new ChoiceItem(label)
createToken(label) == ChoiceItem(label, NoOptions)

\* text typed into the input of the TokenField
TypeText ==
    \E t \in Labels \cup {""} :
        /\ t # tokenField.text
        /\ SessionEdit(tokenField.tokens, t)

\* the typed text becomes a token
CommitToken ==
    /\ tokenField.text # ""
    /\ Len(tokenField.tokens) < MaxTokens
    /\ SessionEdit(Append(tokenField.tokens, createToken(tokenField.text)), "")

RemoveAt(s, i) == [k \in 1..(Len(s) - 1) |-> IF k < i THEN s[k] ELSE s[k + 1]]

InsertAt(s, j, x) ==
    [k \in 1..(Len(s) + 1) |-> IF k < j THEN s[k] ELSE IF k = j THEN x ELSE s[k - 1]]

\* a token is deleted
RemoveToken ==
    \E i \in 1..Len(tokenField.tokens) :
        SessionEdit(RemoveAt(tokenField.tokens, i), tokenField.text)

\* a token is dragged to another place
MoveToken ==
    \E i, j \in 1..Len(tokenField.tokens) :
        /\ i # j
        /\ SessionEdit(InsertAt(RemoveAt(tokenField.tokens, i), j, tokenField.tokens[i]),
                       tokenField.text)

\* TokenField.replaceToken(label, newToken): the first token with the label is replaced
replaceToken(tokens, label, newToken) ==
    IF \E k \in 1..Len(tokens) : tokens[k].label = label
    THEN LET idx == CHOOSE k \in 1..Len(tokens) :
                        /\ tokens[k].label = label
                        /\ \A m \in 1..(k - 1) : tokens[m].label # label
         IN [tokens EXCEPT ![idx] = newToken]
    ELSE tokens

\* the callback of colorButton in _renderToken(token), for the token at place i, after
\* the picker has set fillColorObs
ColorTokenAt(i, fill) ==
    LET token == tokenField.tokens[i]
        fillColor == fill
        textColor == getTextColor(token.options)
    IN SessionEdit(replaceToken(tokenField.tokens, token.label,
                       ChoiceItem(token.label,
                           [fillColor |-> fillColor, textColor |-> textColor])),
                   tokenField.text)

\* a colour is confirmed in the picker of some token of the session
ColorToken ==
    \E i \in 1..Len(tokenField.tokens), fill \in PickerFills : ColorTokenAt(i, fill)

----------------------------------------------------------------------------
\* the oldest waiting callback of setTimeout runs: () => focus(elem)
FocusFires ==
    /\ timers # <<>>
    /\ touched' = focus(Head(timers))
    /\ timers' = Tail(timers)
    /\ UNCHANGED event
    /\ UNCHANGED editorVars
    /\ UNCHANGED clipVars

\* no callback of setTimeout is waiting
Settled == timers = <<>>

----------------------------------------------------------------------------
\* The editor with the callback of setTimeout(..., 0) run before the next event is
\* handled.
Next ==
    \/ Settled /\ ClickDisplay
    \/ Settled /\ ClickEdit
    \/ Settled /\ ClickSave
    \/ Settled /\ KeyEnter
    \/ Settled /\ ClickCancel
    \/ Settled /\ KeyEscape
    \/ Settled /\ ExternalValues
    \/ Settled /\ ExternalOptions
    \/ Settled /\ TypeText
    \/ Settled /\ CommitToken
    \/ Settled /\ RemoveToken
    \/ Settled /\ MoveToken
    \/ Settled /\ ColorToken
    \/ FocusFires

Spec == Init /\ [][Next]_vars

----------------------------------------------------------------------------
\* The editor with the callbacks of setTimeout run at any later time: events that
\* enter and leave Editing are handled while callbacks wait.
NextFocus ==
    \/ ClickDisplay
    \/ ClickEdit
    \/ ClickSave
    \/ KeyEnter
    \/ ClickCancel
    \/ KeyEscape
    \/ ExternalValues
    \/ FocusFires

SpecFocus == Init /\ [][NextFocus]_vars

----------------------------------------------------------------------------
\* The view branch alone: the editor is built with any row cap and the host sets the
\* observables; nobody clicks.

InitView ==
    /\ isEditing = FALSE
    /\ tokenField = NoSession
    /\ live = {}
    /\ values \in SeqUpTo(Labels, MaxViewValues)
    /\ options \in OptionMaps
    /\ maxRows \in 1..MaxRowsArg
    /\ dom = buildDom(FALSE, values, options, maxRows)
    /\ onSaveCall = NoCall
    /\ sessionCalls = 0
    /\ event = "construct"
    /\ clipboard = NoClipboard
    /\ clipOrigin = NoOrigin
    /\ pasted = NotPasted
    /\ timers = <<>>
    /\ touched = NoFocus

ViewExternalValues == \E v \in SeqUpTo(Labels, MaxViewValues) : ValuesChanged(v)

NextView ==
    \/ ViewExternalValues
    \/ ExternalOptions

SpecView == InitView /\ [][NextView]_vars

----------------------------------------------------------------------------
\* The clipboard handlers alone: some application has put data on the clipboard, and
\* the TokenField copies tokens to it and pastes from it.

ClipLabels == Labels \cup {""}

\* the tokens a TokenField can hold after pastes and colour choices
ClipTokens == {ChoiceItem(l, o) : l \in ClipLabels, o \in ColorOptions \cup {NoOptions}}

RedOptions == JObj(<<Prop("fillColor", JStr("#ff0000")), Prop("textColor", JStr("#000000"))>>)

\* elements of a JSON list that have the shape of a ChoiceItem
GoodElements ==
    {JObj(<<Prop("label", JStr("A"))>>),
     JObj(<<Prop("label", JStr("B"))>>),
     JObj(<<Prop("label", JStr("A")), Prop("options", RedOptions)>>),
     JObj(<<Prop("options", JObj(<<Prop("textColor", JStr("#000000")),
                                   Prop("fillColor", JStr("#ff0000")),
                                   Prop("extra", JNull)>>)),
            Prop("label", JStr("B")),
            Prop("id", JNum("1"))>>)}

\* elements of a JSON list that have not
BadElements ==
    {JNull,
     JStr("A"),
     JObj(<<>>),
     JObj(<<Prop("label", JNum("1"))>>),
     JObj(<<Prop("label", JStr("A")), Prop("options", JNull)>>),
     JObj(<<Prop("label", JStr("A")),
            Prop("options", JObj(<<Prop("fillColor", JStr("#ff0000"))>>))>>),
     JObj(<<Prop("label", JStr("B")),
            Prop("options", JObj(<<Prop("fillColor", JStr("#ff0000")),
                                   Prop("textColor", JNum("1"))>>))>>)}

\* JSON values that are no lists
NonLists == {JNull, JNum("1"), JStr("A"), JObj(<<Prop("label", JStr("A"))>>)}

ClipValues ==
    {JArr(elements) : elements \in SeqUpTo(GoodElements \cup BadElements, MaxClipTokens)}
        \cup NonLists

\* texts that are no JSON: a JSON text cut before its end, and a bare word
CutShort(text) == SubSeq(text, 1, Len(text) - 1)

\* the plain texts: line breaks and lines of one label
PlainTexts ==
    {t \in SeqUpTo(Labels \cup {"\n"}, MaxClipText) :
        \A i \in 1..(Len(t) - 1) : t[i] = "\n" \/ t[i + 1] = "\n"}

InitClip ==
    /\ isEditing = FALSE
    /\ tokenField = NoSession
    /\ live = {}
    /\ values = <<>>
    /\ options = <<>>
    /\ maxRows = DefaultMaxRows
    /\ dom = buildDom(FALSE, values, options, maxRows)
    /\ onSaveCall = NoCall
    /\ sessionCalls = 0
    /\ event = "construct"
    /\ pasted = NotPasted
    /\ timers = <<>>
    /\ touched = NoFocus
    /\ \E plain \in PlainTexts :
        \/ /\ clipboard = [json |-> NoData, plain |-> plain]
           /\ clipOrigin = NoOrigin
        \/ \E v \in ClipValues :
            \/ /\ clipboard = [json |-> Stringify(v), plain |-> plain]
               /\ clipOrigin = [kind |-> "value", val |-> v, tokens |-> <<>>]
            \/ /\ v.kind \in {"arr", "obj"}
               /\ clipboard = [json |-> CutShort(Stringify(v)), plain |-> plain]
               /\ clipOrigin = [kind |-> "broken", val |-> v, tokens |-> <<>>]
        \/ /\ clipboard = [json |-> <<Bare("undefined")>>, plain |-> plain]
           /\ clipOrigin = [kind |-> "broken", val |-> JNull, tokens |-> <<>>]

\* the TokenField copies tokens: tokensToClipboard(tokens, clipboard). setData
\* replaces what a field held without reading it, so the copy is taken here only
\* on a clipboard that nothing has written structured data to.
Copy ==
    \E tokens \in SeqUpTo(ClipTokens, MaxClipTokens) :
        /\ clipOrigin = NoOrigin
        /\ clipboard' = tokensToClipboard(tokens)
        /\ clipOrigin' = [kind |-> "copy", val |-> JNull, tokens |-> tokens]
        /\ pasted' = NotPasted
        /\ event' = "copy"
        /\ UNCHANGED editorVars
        /\ UNCHANGED focusVars

\* the TokenField pastes: clipboardToTokens(clipboard)
Paste ==
    /\ pasted' = clipboardToChoices(clipboard)
    /\ event' = "paste"
    /\ UNCHANGED <<clipboard, clipOrigin>>
    /\ UNCHANGED editorVars
    /\ UNCHANGED focusVars

NextClip ==
    \/ Copy
    \/ Paste

SpecClip == InitClip /\ [][NextClip]_vars

----------------------------------------------------------------------------
\* Properties

\* the candidate _save computes from the session tf
CandidateValues(tf) == NewValues(tf)

CandidateOptions(tf) == NewOptions(NewTokens(tf))

HasDuplicates(s) == \E i, j \in 1..Len(s) : i # j /\ s[i] = s[j]

MapKeys(m) == {m[i].key : i \in 1..Len(m)}

SeqRange(s) == {s[i] : i \in 1..Len(s)}

\* C1: a Save from Editing whose candidate differs from the held pair calls the save
\* callback with exactly the candidate and leaves the editor in Viewing, whatever the
\* host's callback does.
C1_SaveCallsBackAndEndsViewing ==
    [][(isEditing /\ event' = "save"
          /\ Changed(values, options, CandidateValues(tokenField), CandidateOptions(tokenField)))
        => (/\ onSaveCall' = Call(CandidateValues(tokenField), CandidateOptions(tokenField))
            /\ ~isEditing')]_vars

\* C2 as stated: for held values of distinct labels and any held options, Save right
\* after entering Editing calls nothing, changes nothing held and ends in Viewing.
C2_ImmediateSaveAnyOptions ==
    [][(event = "startEditing" /\ event' = "save" /\ ~HasDuplicates(values))
        => (/\ onSaveCall' = NoCall
            /\ values' = values
            /\ options' = options
            /\ ~isEditing')]_vars

\* C2 amended: for held values of distinct labels and held options whose keys all
\* occur in the values, Save right after entering Editing (no token changed, no text
\* typed) does not call the save callback, leaves the held values and options as they
\* were and ends in Viewing.
C2_ImmediateSaveIsSilent ==
    [][(/\ event = "startEditing" /\ event' = "save"
        /\ ~HasDuplicates(values)
        /\ MapKeys(options) \subseteq SeqRange(values))
        => (/\ onSaveCall' = NoCall
            /\ values' = values
            /\ options' = options
            /\ ~isEditing')]_vars

C2_Witness ==
    /\ event = "save"
    /\ ~isEditing
    /\ onSaveCall = NoCall
    /\ Len(values) = 2
    /\ ~HasDuplicates(values)
    /\ Len(options) = 2
    /\ tokenField.tokens = initialValue(values, options)
    /\ tokenField.text = ""

\* C3: within one edit session the save callback is called at most once.
C3_AtMostOneCallPerSession == sessionCalls <= 1

\* C4: an external change of the held values or of the held options moves an editing
\* editor to Viewing (and leaves a viewing one in Viewing) without a call of the save
\* callback.
C4_ExternalChangeCancels ==
    [][(event' \in {"valuesChanged", "optionsChanged"})
        => (~isEditing' /\ onSaveCall' = NoCall)]_vars

\* C5: Cancel or Escape in Editing moves the editor to Viewing, calls no save callback
\* and leaves the held values and options as they were, whatever was edited.
C5_CancelDiscards ==
    [][(isEditing /\ event' = "cancel")
        => (/\ ~isEditing'
            /\ onSaveCall' = NoCall
            /\ sessionCalls' = sessionCalls
            /\ values' = values
            /\ options' = options)]_vars

C5_Witness ==
    /\ event = "cancel"
    /\ ~isEditing
    /\ onSaveCall = NoCall
    /\ tokenField.tokens # initialValue(values, options)
    /\ tokenField.text # ""

C7_OneLiveSession ==
    /\ Cardinality(live) <= 1
    /\ isEditing => (tokenField # NoSession /\ live = {tokenField.id}
                     /\ dom.mode = "edit")

\* the second TokenField of the editor has replaced the first
C7_Witness ==
    /\ isEditing
    /\ tokenField.id = 2
    /\ live = {2}

\* the labels of the session: those of its tokens and the typed text when not empty
SessionLabels(tf) ==
    {tf.tokens[i].label : i \in 1..Len(tf.tokens)}
        \cup (IF tf.text # "" THEN {tf.text} ELSE {})

\* the options the session carries for label l, NoOptions among them for a token
\* without options and for the typed text
SessionOptionsOf(tf, l) ==
    {tf.tokens[i].options : i \in {k \in 1..Len(tf.tokens) : tf.tokens[k].label = l}}
        \cup (IF tf.text = l THEN {NoOptions} ELSE {})

\* C8: the values passed to the save callback hold each label of the session (tokens
\* and non-empty typed text) exactly once and no other label; the options passed for
\* a label are those of one token of the session with that label.
C8_SavedValuesAreTheDistinctLabels ==
    [][(isEditing /\ event' = "save" /\ onSaveCall'.called)
        => (/\ ~HasDuplicates(onSaveCall'.values)
            /\ SeqRange(onSaveCall'.values) = SessionLabels(tokenField)
            /\ MapKeys(onSaveCall'.options) \subseteq SessionLabels(tokenField)
            /\ \A l \in SessionLabels(tokenField) :
                 MapGet(onSaveCall'.options, l) \in SessionOptionsOf(tokenField, l))]_vars

\* a save of a session with two tokens of one label and different options
C8_Witness ==
    /\ event = "save"
    /\ onSaveCall.called
    /\ \E i, j \in 1..Len(tokenField.tokens) :
          /\ i # j
          /\ tokenField.tokens[i].label = tokenField.tokens[j].label
          /\ tokenField.tokens[i].options # tokenField.tokens[j].options
    /\ Len(onSaveCall.values) < Len(tokenField.tokens)

\* C9: in view mode, with n values and maxRows >= 1: when n <= maxRows the n values are
\* the rows, in order, and there is no "+N more" row; when n > maxRows the rows are the
\* first maxRows - 1 values and one "+N more" row follows with N = n - (maxRows - 1).
C9_RowsAndSummary ==
    dom.mode = "view" =>
        LET n == Len(values) IN
        IF n <= maxRows
        THEN /\ Len(dom.rows) = n
             /\ \A i \in 1..n : dom.rows[i].label = values[i]
             /\ ~dom.moreShown
        ELSE /\ Len(dom.rows) = maxRows - 1
             /\ \A i \in 1..(maxRows - 1) : dom.rows[i].label = values[i]
             /\ dom.moreShown
             /\ dom.moreN = n - (maxRows - 1)
             /\ Len(dom.rows) + dom.moreN = n

C9_Witness ==
    /\ dom.mode = "view"
    /\ event = "valuesChanged"
    /\ maxRows = 3
    /\ Len(values) = 5
    /\ Len(dom.rows) = 2
    /\ dom.moreN = 3

\* C10: in view mode the "No choices configured" row is shown exactly when the held
\* values are empty, and then it is the only row.
C10_NoChoicesRowIffEmpty ==
    dom.mode = "view" =>
        /\ dom.noChoices <=> (Len(values) = 0)
        /\ dom.noChoices => (Len(dom.rows) = 0 /\ ~dom.moreShown)

\* a property of a JSON object that holds a string
HoldsString(obj, k) ==
    \E i \in 1..Len(obj.items) : obj.items[i].key = k /\ obj.items[i].val.kind = "str"

\* the string a property of a JSON object holds
StringOf(obj, k) ==
    LET i == CHOOSE j \in 1..Len(obj.items) : obj.items[j].key = k IN obj.items[i].val.s

\* a JSON value of the shape of a choice: an object with a string label and either no
\* options or options that are an object with a string textColor and fillColor
IsChoice(v) ==
    /\ v.kind = "obj"
    /\ HoldsString(v, "label")
    /\ \A i \in 1..Len(v.items) :
        v.items[i].key = "options"
            => (/\ v.items[i].val.kind = "obj"
                /\ HoldsString(v.items[i].val, "textColor")
                /\ HoldsString(v.items[i].val, "fillColor"))

\* a JSON list of choices
IsChoiceList(v) == v.kind = "arr" /\ \A i \in 1..Len(v.items) : IsChoice(v.items[i])

\* the token a choice of a JSON list stands for
ListedToken(v) ==
    [label |-> StringOf(v, "label"),
     options |-> IF \E i \in 1..Len(v.items) : v.items[i].key = "options"
                 THEN LET o == v.items[CHOOSE i \in 1..Len(v.items) :
                                           v.items[i].key = "options"].val
                      IN [fillColor |-> StringOf(o, "fillColor"),
                          textColor |-> StringOf(o, "textColor")]
                 ELSE NoOptions]

\* the structured field of the clipboard holds a JSON list of choices
HoldsChoiceList == clipOrigin.kind = "value" /\ IsChoiceList(clipOrigin.val)

\* C11: when the structured field of the clipboard parses to a list of which every
\* element has the shape of a choice, the paste returns exactly that list, in its
\* order and with the options its elements carry, whatever the plain text holds; the
\* empty list gives the empty sequence.
C11_ChoiceListIsReturned ==
    (event = "paste" /\ HoldsChoiceList)
        => (/\ pasted.done
            /\ ~pasted.threw
            /\ Len(pasted.tokens) = Len(clipOrigin.val.items)
            /\ \A i \in 1..Len(pasted.tokens) :
                pasted.tokens[i] = ListedToken(clipOrigin.val.items[i]))

\* a list of two choices, one with options, pasted although there is a plain text
C11_Witness ==
    /\ event = "paste"
    /\ HoldsChoiceList
    /\ clipboard.plain # NoData
    /\ Len(pasted.tokens) = 2
    /\ pasted.tokens[1].options = NoOptions
    /\ pasted.tokens[2].options # NoOptions

\* the number of line breaks of a plain text
Breaks(text) == Cardinality({i \in 1..Len(text) : text[i] = "\n"})

\* line k of a plain text: what stands after k - 1 line breaks and before the next
LineAt(text, k) ==
    LET at == {i \in 1..Len(text) :
                  /\ text[i] # "\n"
                  /\ Cardinality({j \in 1..(i - 1) : text[j] = "\n"}) = k - 1}
    IN IF at = {} THEN "" ELSE text[CHOOSE i \in at : TRUE]

\* C12: a paste never fails; when the structured field is absent, is no JSON, is no
\* list, or has an element that has not the shape of a choice, the paste returns one
\* token without options for each line of the plain text, an empty line giving a token
\* with the empty label, and the empty sequence when there is no plain text either.
C12_FallsBackToPlainText ==
    event = "paste"
        => (/\ pasted.done
            /\ ~pasted.threw
            /\ (clipOrigin.kind \in {"none", "broken", "value"} /\ ~HoldsChoiceList)
                => IF clipboard.plain = NoData
                   THEN pasted.tokens = <<>>
                   ELSE /\ Len(pasted.tokens) = Breaks(clipboard.plain) + 1
                        /\ \A k \in 1..Len(pasted.tokens) :
                            /\ pasted.tokens[k].label = LineAt(clipboard.plain, k)
                            /\ pasted.tokens[k].options = NoOptions)

\* a list with one choice and one element that is none, pasted from a plain text of
\* an empty line and a label
C12_Witness ==
    /\ event = "paste"
    /\ clipOrigin.kind = "value"
    /\ clipOrigin.val.kind = "arr"
    /\ Len(clipOrigin.val.items) = 2
    /\ IsChoice(clipOrigin.val.items[1])
    /\ ~IsChoice(clipOrigin.val.items[2])
    /\ Len(pasted.tokens) = 2
    /\ pasted.tokens[1].label = ""
    /\ pasted.tokens[2].label # ""

\* C13: a copy writes both fields, the JSON of the whole token list and the labels
\* joined by line breaks, and a paste of what a copy wrote returns the tokens copied:
\* the same labels in the same order with the same options.
C13_CopyThenPasteRoundTrip ==
    /\ [](event = "copy" =>
            LET tokens == clipOrigin.tokens
                parsed == JSONparse(clipboard.json)
            IN /\ parsed.ok
               /\ parsed.val.kind = "arr"
               /\ Len(parsed.val.items) = Len(tokens)
               /\ \A i \in 1..Len(tokens) :
                    /\ IsChoice(parsed.val.items[i])
                    /\ ListedToken(parsed.val.items[i]) = tokens[i]
               /\ IF tokens = <<>>
                  THEN clipboard.plain = NoData
                  ELSE /\ Breaks(clipboard.plain) = Len(tokens) - 1
                       /\ \A k \in 1..Len(tokens) :
                            LineAt(clipboard.plain, k) = tokens[k].label)
    /\ [][(event = "copy" /\ event' = "paste")
            => (/\ pasted'.done
                /\ ~pasted'.threw
                /\ pasted'.tokens = clipOrigin.tokens)]_vars

\* two tokens, the first with options and the second without, copied and pasted
C13_Witness ==
    /\ event = "paste"
    /\ clipOrigin.kind = "copy"
    /\ Len(clipOrigin.tokens) = 2
    /\ clipOrigin.tokens[1].options # NoOptions
    /\ clipOrigin.tokens[2].options = NoOptions
    /\ pasted.tokens = clipOrigin.tokens

\* C14 as stated: when a colour is confirmed for the token at place i of the session,
\* the token at place i, and no other, is replaced by a token with the same label and
\* the confirmed fill and text colours, also when another token has the same label;
\* the other tokens, their order and the typed text stay as they were.
C14_ColorReplacesTokenAtItsPlace ==
    [][\A i \in 1..Len(tokenField.tokens), fill \in PickerFills :
        ColorTokenAt(i, fill)
            => (/\ tokenField'.tokens =
                    [tokenField.tokens EXCEPT
                        ![i] = [label |-> tokenField.tokens[i].label,
                                options |-> [fillColor |-> fill,
                                             textColor |-> IF tokenField.tokens[i].options
                                                                = NoOptions
                                                           THEN DEFAULT_TEXT_COLOR
                                                           ELSE tokenField.tokens[i]
                                                                    .options.textColor]]]
                /\ tokenField'.text = tokenField.text)]_vars

\* C15: the editor starts in Viewing; a click on the display or on the Edit button in
\* Viewing enters Editing with a new session that has one token for each held value,
\* in order, each with the options held for its label, or none when none are held,
\* and with an empty typed text.
C15_EditingStartsFromHeldValues ==
    /\ [](event = "construct" => (~isEditing /\ dom.mode = "view"))
    /\ [][(~isEditing /\ event' = "startEditing")
            => (/\ isEditing'
                /\ dom'.mode = "edit"
                /\ tokenField'.text = ""
                /\ Len(tokenField'.tokens) = Len(values)
                /\ \A i \in 1..Len(values) :
                    /\ tokenField'.tokens[i].label = values[i]
                    /\ \/ \E k \in 1..Len(options) :
                            /\ options[k].key = values[i]
                            /\ tokenField'.tokens[i].options = options[k].value
                       \/ /\ \A k \in 1..Len(options) : options[k].key # values[i]
                          /\ tokenField'.tokens[i].options = NoOptions)]_vars

\* Editing entered with two values of which only the first has options held
C15_Witness ==
    /\ event = "startEditing"
    /\ isEditing
    /\ Len(values) = 2
    /\ Len(tokenField.tokens) = 2
    /\ tokenField.tokens[1].options # NoOptions
    /\ tokenField.tokens[2].options = NoOptions

\* the tokens of the session followed by the token of the typed text, if any is typed
WithPending(tf) ==
    tf.tokens \o (IF tf.text # "" THEN <<[label |-> tf.text, options |-> NoOptions]>>
                  ELSE <<>>)

\* the places of a sequence of tokens where a label occurs for the first time
FirstPlaces(seq) == {i \in 1..Len(seq) : \A j \in 1..(i - 1) : seq[j].label # seq[i].label}

\* the place where label l occurs first
FirstPlaceOf(seq, l) == CHOOSE i \in FirstPlaces(seq) : seq[i].label = l

\* the tokens at the first places, in their order
FirstOccurrences(seq) ==
    [k \in 1..Cardinality(FirstPlaces(seq)) |->
        seq[CHOOSE i \in FirstPlaces(seq) :
                Cardinality({j \in FirstPlaces(seq) : j < i}) = k - 1]]

\* the labels of a sequence of tokens
LabelsOf(seq) == [i \in 1..Len(seq) |-> seq[i].label]

\* what a mapping holds for label l: the options of its entry, or NoOptions
Held(m, l) ==
    IF \E k \in 1..Len(m) : m[k].key = l
    THEN m[CHOOSE k \in 1..Len(m) : m[k].key = l].value
    ELSE NoOptions

C17_TypedTextIsTheLastToken ==
    [][(isEditing /\ event' = "save" /\ onSaveCall'.called)
        => LET kept == LabelsOf(FirstOccurrences(tokenField.tokens))
               typed == tokenField.text
           IN IF typed # "" /\ \A i \in 1..Len(tokenField.tokens) :
                                    tokenField.tokens[i].label # typed
              THEN /\ onSaveCall'.values = kept \o <<typed>>
                   /\ \A k \in 1..Len(onSaveCall'.options) :
                        onSaveCall'.options[k].key # typed
              ELSE onSaveCall'.values = kept]_vars

\* a save of one token with options and a typed text of another label
C17_Witness ==
    /\ event = "save"
    /\ onSaveCall.called
    /\ tokenField.text = "B"
    /\ tokenField.tokens[1].label = "A"
    /\ tokenField.tokens[1].options # NoOptions
    /\ onSaveCall.values = <<"A", "B">>
    /\ MapKeys(onSaveCall.options) = {"A"}

\* C18: the options passed to the save callback have an entry for a label exactly
\* when the surviving token of that label carries options, and the entry holds exactly
\* the fill colour and the text colour of that token.
C18_OptionsOfSurvivorsWithOptions ==
    [][(isEditing /\ event' = "save" /\ onSaveCall'.called)
        => LET survivors == FirstOccurrences(WithPending(tokenField)) IN
           /\ \A l \in Labels :
                (\E k \in 1..Len(onSaveCall'.options) : onSaveCall'.options[k].key = l)
                    <=> (\E i \in 1..Len(survivors) :
                            survivors[i].label = l /\ survivors[i].options # NoOptions)
           /\ \A k \in 1..Len(onSaveCall'.options) :
                \E i \in 1..Len(survivors) :
                    /\ survivors[i].label = onSaveCall'.options[k].key
                    /\ onSaveCall'.options[k].value
                        = [fillColor |-> survivors[i].options.fillColor,
                           textColor |-> survivors[i].options.textColor]
           /\ \A k1, k2 \in 1..Len(onSaveCall'.options) :
                onSaveCall'.options[k1].key = onSaveCall'.options[k2].key => k1 = k2]_vars

\* a save of two tokens of which only the second has options, nothing typed
C18_Witness ==
    /\ event = "save"
    /\ onSaveCall.called
    /\ tokenField.text = ""
    /\ Len(onSaveCall.values) = 2
    /\ tokenField.tokens[1].options = NoOptions
    /\ tokenField.tokens[2].options # NoOptions
    /\ MapKeys(onSaveCall.options) = {onSaveCall.values[2]}

\* C19: a save calls the callback exactly when the candidate differs from the held
\* pair: the values differ when they are not the same labels in the same order, the
\* options differ when some label has options in one mapping and not, or others, in
\* the other; the order of the entries of the mappings does not count.
C19_CallbackIffCandidateDiffers ==
    [][(isEditing /\ event' = "save")
        => LET survivors == FirstOccurrences(WithPending(tokenField))
               valuesDiffer == LabelsOf(survivors) # values
               optionsDiffer ==
                   \E l \in Labels :
                       Held(options, l) #
                           (IF \E i \in 1..Len(survivors) : survivors[i].label = l
                            THEN survivors[FirstPlaceOf(survivors, l)].options
                            ELSE NoOptions)
           IN onSaveCall'.called <=> (valuesDiffer \/ optionsDiffer)]_vars

\* a save after the two tokens have only changed places: the callback is called
C19_Witness ==
    /\ event = "save"
    /\ onSaveCall.called
    /\ values = <<"A", "B">>
    /\ onSaveCall.values = <<"B", "A">>
    /\ \A l \in Labels : Held(options, l) = Held(onSaveCall.options, l)

\* C20 as stated: a save only reads the session: the tokens of the session and the
\* typed text are after the save what they were before it.
C20_SaveLeavesSessionAsItWas ==
    [][(isEditing /\ event' = "save")
        => (/\ tokenField'.tokens = tokenField.tokens
            /\ tokenField'.text = tokenField.text)]_vars

\* C22 as stated: in view mode the rows shown (the rows of values, the "+N more" row
\* and the "No choices configured" row) are never more than maxRows, for every
\* maxRows >= 1 and all values.
C22_RowsWithinMaxRows ==
    dom.mode = "view" =>
        Len(dom.rows) + (IF dom.moreShown THEN 1 ELSE 0)
                      + (IF dom.noChoices THEN 1 ELSE 0) <= maxRows

\* C23: whenever the save callback is called, every label that has an entry in the
\* options passed is one of the values passed, and no label is twice among the values
\* passed.
C23_OptionsOnlyForValuesPassed ==
    onSaveCall.called =>
        /\ \A k \in 1..Len(onSaveCall.options) :
            \E a \in 1..Len(onSaveCall.values) :
                onSaveCall.values[a] = onSaveCall.options[k].key
        /\ \A a, b \in 1..Len(onSaveCall.values) :
            onSaveCall.values[a] = onSaveCall.values[b] => a = b

\* a save after the token of a label with held options was removed: the callback gets
\* the other label alone, with its options
C23_Witness ==
    /\ event = "save"
    /\ onSaveCall.called
    /\ MapKeys(options) = {"A", "B"}
    /\ onSaveCall.values = <<"B">>
    /\ MapKeys(onSaveCall.options) = {"B"}

\* C21 as stated: each entry into Editing leaves exactly one more callback waiting,
\* which runs in a later step than the entry, and nothing else leaves one waiting; a
\* callback that runs after the edit session of its text input has ended (by cancel,
\* save or a change of the values from outside) touches no text input.
C21_FocusOnlyWhileSessionLasts ==
    /\ [][(~isEditing /\ isEditing')
            => (Len(timers') = Len(timers) + 1 /\ touched' = touched)]_vars
    /\ [][~(~isEditing /\ isEditing') => Len(timers') <= Len(timers)]_vars
    /\ [][(Len(timers') < Len(timers) /\ Head(timers).ended)
            => touched' = touched]_vars

====
